---- MODULE Spec2Model ----
(***************************************************************************)
(* Model of the scarlett2 firmware management tool: the firmware file      *)
(* codec (scarlett2-firmware.c), the firmware catalog and version          *)
(* selection, and the reboot / reset-config / erase-firmware / update      *)
(* command sequences of main() with the erase progress monitor.            *)
(***************************************************************************)
EXTENDS Integers, Sequences, FiniteSets, TLC

(***************************************************************************)
(* Bounds of the model.                                                    *)
(***************************************************************************)
\* longest firmware payload, in bytes, among the files on the modelled disk
MaxLen == 3
\* largest number of firmware files in the two scanned directories together
MaxFiles == 1
\* the same, for the runs that stop after the first device command
MaxScan == 2

(***************************************************************************)
(* Program constants.                                                      *)
(***************************************************************************)
REQUIRED_HWDEP_VERSION_MAJOR == 1
VENDOR_VID == 4661
\* progress value that reports the end of an erase (the literal 255)
ERASE_DONE == 255
\* bound of the polling loop "for (int i = 0; i < 10; i++)"
POLL_LIMIT == 10
\* sizeof(struct scarlett2_firmware_header): 8 + 2 + 2 + 4 + 4 + 32
HEADER_SIZE == 52
SHA256_DIGEST_LENGTH == 32

\* product ids of scarlett2_supported[], in table order
scarlett2_supported ==
  << 33283, 33284, 33281, 33297, 33296, 33298, 33299, 33300, 33301,
     33304, 33305, 33306, 33286, 33287, 33288, 33290, 33291, 33292 >>

\* "SCARLETT"
MAGIC_STRING == << 83, 67, 65, 82, 76, 69, 84, 84 >>

\* the null pointer
NULL == [null |-> TRUE]
IsNull(p) == "null" \in DOMAIN p

(***************************************************************************)
(* Firmware file codec (scarlett2-firmware.c).                             *)
(***************************************************************************)
RECURSIVE SumBytes(_, _)
SumBytes(data, k) ==
  IF k = 0 THEN 0 ELSE (SumBytes(data, k - 1) + data[k] * (k + 1)) % 65536

\* SHA256(data, length, out): a 32-byte digest of the first `length` bytes
Sha256(data, length) ==
  [ j \in 1..SHA256_DIGEST_LENGTH |->
      (SumBytes(data, length) * j + length + j) % 256 ]

\* variant of verify_sha256() that takes an empty payload as verified
verify_sha256_nonempty(data, length, expected_hash) ==
  length = 0 \/ Sha256(data, length) = expected_hash

verify_sha256(data, length, expected_hash) ==
  Sha256(data, length) = expected_hash

\* big-endian file bytes to host order
ntohs(bytes, off) == bytes[off + 1] * 256 + bytes[off + 2]
\* variant of ntohl() that converts the low 16 bits only, as ntohs() does
ntohl_low16(bytes, off) == bytes[off + 3] * 256 + bytes[off + 4]

ntohl(bytes, off) ==
  ((bytes[off + 1] * 256 + bytes[off + 2]) * 256 + bytes[off + 3]) * 256
    + bytes[off + 4]

\* host order to big-endian file bytes
htons(v) == << (v \div 256) % 256, v % 256 >>
htonl(v) ==
  << (v \div 16777216) % 256, (v \div 65536) % 256, (v \div 256) % 256,
     v % 256 >>

\* the bytes of a firmware file with the given header fields and payload
WriteFirmware(magic, vid, pid, version, length, hash, payload) ==
  magic \o htons(vid) \o htons(pid) \o htonl(version) \o htonl(length)
    \o hash \o payload

\* variant of read_header() that compares the first 7 bytes of the magic
read_header_magic7(bytes) ==
  IF Len(bytes) < HEADER_SIZE
  THEN NULL
  ELSE IF SubSeq(bytes, 1, 7) # SubSeq(MAGIC_STRING, 1, 7)
  THEN NULL
  ELSE [ header |->
           [ usb_vid          |-> ntohs(bytes, 8),
             usb_pid          |-> ntohs(bytes, 10),
             firmware_version |-> ntohl(bytes, 12),
             firmware_length  |-> ntohl(bytes, 16),
             sha256           |-> SubSeq(bytes, 21, HEADER_SIZE) ],
         firmware_data |-> << >> ]

\* read_header(file): NULL on a short read or a magic mismatch
read_header(bytes) ==
  IF Len(bytes) < HEADER_SIZE
  THEN NULL
  ELSE IF SubSeq(bytes, 1, 8) # MAGIC_STRING
  THEN NULL
  ELSE [ header |->
           [ usb_vid          |-> ntohs(bytes, 8),
             usb_pid          |-> ntohs(bytes, 10),
             firmware_version |-> ntohl(bytes, 12),
             firmware_length  |-> ntohl(bytes, 16),
             sha256           |-> SubSeq(bytes, 21, HEADER_SIZE) ],
         firmware_data |-> << >> ]

\* scarlett2_read_firmware_header(fn); `file` is NULL when fopen fails
scarlett2_read_firmware_header(file) ==
  IF IsNull(file)
  THEN NULL
  ELSE LET firmware == read_header(file.bytes)
       IN  IF IsNull(firmware) THEN NULL ELSE firmware.header

\* variant of scarlett2_read_firmware_file() that does not verify the digest
scarlett2_read_firmware_file_unverified(file, malloc_ok) ==
  IF IsNull(file)
  THEN NULL
  ELSE LET firmware == read_header(file.bytes)
       IN  IF IsNull(firmware)
           THEN NULL
           ELSE LET length == firmware.header.firmware_length
                    avail  == Len(file.bytes) - HEADER_SIZE
                    data   == SubSeq(file.bytes, HEADER_SIZE + 1,
                                     HEADER_SIZE + length)
                IN  IF ~malloc_ok
                    THEN NULL
                    ELSE IF avail < length
                    THEN NULL
                    ELSE [ header |-> firmware.header,
                           firmware_data |-> data ]

\* scarlett2_read_firmware_file(fn); malloc_ok: malloc() returned a buffer
scarlett2_read_firmware_file(file, malloc_ok) ==
  IF IsNull(file)
  THEN NULL
  ELSE LET firmware == read_header(file.bytes)
       IN  IF IsNull(firmware)
           THEN NULL
           ELSE LET length == firmware.header.firmware_length
                    avail  == Len(file.bytes) - HEADER_SIZE
                    data   == SubSeq(file.bytes, HEADER_SIZE + 1,
                                     HEADER_SIZE + length)
                IN  IF ~malloc_ok
                    THEN NULL
                    ELSE IF avail < length
                    THEN NULL
                    ELSE IF ~verify_sha256(data, length,
                                           firmware.header.sha256)
                    THEN NULL
                    ELSE [ header |-> firmware.header,
                           firmware_data |-> data ]

(***************************************************************************)
(* The environment: attached sound cards and firmware files on disk.       *)
(***************************************************************************)
RECURSIVE Fill(_)
Fill(n) == IF n = 0 THEN << >> ELSE Append(Fill(n - 1), (n * 37) % 256)

GoodFile(vid, pid, version, payload) ==
  WriteFirmware(MAGIC_STRING, vid, pid, version, Len(payload),
                Sha256(payload, Len(payload)), payload)

\* contents a firmware file on disk may have
FilePool ==
  << \* 1: Scarlett 3rd Gen Solo, version 1605, MaxLen payload bytes
     GoodFile(VENDOR_VID, 33297, 1605, Fill(MaxLen)),
     \* 2: Scarlett 3rd Gen Solo, version 1552, one payload byte
     GoodFile(VENDOR_VID, 33297, 1552, Fill(1)),
     \* 3: Scarlett 3rd Gen Solo, version 1644, digest of another payload
     WriteFirmware(MAGIC_STRING, VENDOR_VID, 33297, 1644, 2,
                   Sha256(<< 7, 7 >>, 2), Fill(2)),
     \* 4: Scarlett 3rd Gen Solo, version 1653, payload cut short
     WriteFirmware(MAGIC_STRING, VENDOR_VID, 33297, 1653, 2,
                   Sha256(Fill(2), 2), Fill(1)),
     \* 5: Scarlett 3rd Gen Solo, version 1700, empty payload
     GoodFile(VENDOR_VID, 33297, 1700, << >>),
     \* 6: Scarlett 2nd Gen 6i6, version 1583
     GoodFile(VENDOR_VID, 33283, 1583, Fill(2)),
     \* 7: magic mismatch in the last byte
     WriteFirmware(<< 83, 67, 65, 82, 76, 69, 84, 33 >>, VENDOR_VID, 33297,
                   1605, 1, Sha256(Fill(1), 1), Fill(1)),
     \* 8: another vendor's file
     GoodFile(VENDOR_VID + 1, 33297, 1605, Fill(1)) >>

\* all contents: those of FilePool and three more
CatalogPool ==
  FilePool \o
  << \* 9: Scarlett 3rd Gen Solo, version 1605 again, another payload
     GoodFile(VENDOR_VID, 33297, 1605, << 9 >>),
     \* 10: a product id that scarlett2_supported does not list, version 1605
     GoodFile(VENDOR_VID, 33302, 1605, Fill(1)),
     \* 11: the same unlisted product id, version 1700
     GoodFile(VENDOR_VID, 33302, 1700, Fill(1)) >>

\* contents for the calls of the codec alone: every combination of a magic,
\* a product id, a version, a length field, a hash that is or is not the
\* digest of the payload, a header that is whole or cut one byte short, and
\* a number of payload bytes present in the file
CodecMagics ==
  << MAGIC_STRING,
     << 83, 67, 65, 82, 76, 69, 84, 33 >>,
     << 115, 67, 65, 82, 76, 69, 84, 84 >> >>
CodecPids == << 33297, 33302 >>
CodecVersions == << 0, 1605 >>
\* largest length field of these contents
MaxLengthField == 2

CodecFile(n) ==
  LET magic   == CodecMagics[(n % Len(CodecMagics)) + 1]
      q1      == n \div Len(CodecMagics)
      pid     == CodecPids[(q1 % 2) + 1]
      q2      == q1 \div 2
      version == CodecVersions[(q2 % 2) + 1]
      q3      == q2 \div 2
      length  == q3 % (MaxLengthField + 1)
      q4      == q3 \div (MaxLengthField + 1)
      hash_ok == (q4 % 2) = 0
      q5      == q4 \div 2
      whole   == (q5 % 2) = 0
      size    == q5 \div 2
      digest  == Sha256(Fill(length), length)
      hash    == IF hash_ok THEN digest
                 ELSE [digest EXCEPT ![1] = (@ + 1) % 256]
      bytes   == WriteFirmware(magic, VENDOR_VID, pid, version, length, hash,
                               Fill(size))
  IN  IF whole THEN bytes ELSE SubSeq(bytes, 1, HEADER_SIZE - 1)

CodecFiles ==
  [ n \in 1..(Len(CodecMagics) * 2 * 2 * (MaxLengthField + 1) * 2 * 2
                * (MaxLen + 1)) |->
      CodecFile(n - 1) ]

\* every content a file may have
AllFiles == CatalogPool \o CodecFiles

\* the contents met in a scan of more than MaxFiles files
ScanPool == { 1, 2, 6, 7, 8, 9, 10, 11 }
\* the contents a file may get after the scan
DriftPool == { 1, 2, 3, 4, 6 }

\* the listings a directory may have: file contents in readdir() order
Listings(n) == UNION { [1..k -> 1..Len(FilePool)] : k \in 0..n }

\* a disk: the listing of the firmware directory next to the executable and
\* the listing of the system firmware directory
Disks ==
  { d \in Listings(MaxFiles) \X Listings(MaxFiles) :
      Len(d[1]) + Len(d[2]) <= MaxFiles }

\* fopen(fn) on a disk: fn is <<directory, position in its listing>>
OpenFile(d, fn) ==
  IF fn[2] \in 1..Len(d[fn[1]])
  THEN [bytes |-> AllFiles[d[fn[1]][fn[2]]]]
  ELSE NULL

\* the sound cards of the system, in snd_card_next() order; usb_pid is what
\* check_usb_id() returns (0 for a card of another vendor)
SystemCards ==
  { << >>,
    << [card_num |-> 0, usb_pid |-> 0, firmware_version |-> 0],
       [card_num |-> 1, usb_pid |-> 33297, firmware_version |-> 1535] >>,
    << [card_num |-> 0, usb_pid |-> 33283, firmware_version |-> 1583],
       [card_num |-> 1, usb_pid |-> 33297, firmware_version |-> 1605] >> }

Commands == { "reboot", "reset-config", "erase-firmware", "update" }

(***************************************************************************)
(* Device enumeration and firmware catalog.                                *)
(***************************************************************************)
\* get_device_for_pid(pid): position in scarlett2_supported, 0 for NULL
get_device_for_pid(pid) ==
  IF \E k \in 1..Len(scarlett2_supported) : scarlett2_supported[k] = pid
  THEN CHOOSE k \in 1..Len(scarlett2_supported) : scarlett2_supported[k] = pid
  ELSE 0

\* enum_cards(): the supported cards among the system's cards
RECURSIVE enum_cards(_)
enum_cards(cs) ==
  IF cs = << >>
  THEN << >>
  ELSE LET rest == enum_cards(SubSeq(cs, 1, Len(cs) - 1))
           sc   == cs[Len(cs)]
       IN  IF sc.usb_pid = 0 \/ get_device_for_pid(sc.usb_pid) = 0
           THEN rest
           ELSE Append(rest, [card_num |-> sc.card_num, pid |-> sc.usb_pid,
                              firmware_version |-> sc.firmware_version])

\* variant of add_found_firmware() that takes the files of every vendor
add_found_firmware_any_vendor(ffs, fn, firmware) ==
  IF \E i \in 1..Len(ffs) :
       /\ ffs[i].firmware.usb_vid = firmware.usb_vid
       /\ ffs[i].firmware.usb_pid = firmware.usb_pid
       /\ ffs[i].firmware.firmware_version = firmware.firmware_version
  THEN ffs
  ELSE Append(ffs, [fn |-> fn, firmware |-> firmware])

\* variant of add_found_firmware() where a later file with the same ids and
\* version takes the place of the entry
add_found_firmware_last_wins(ffs, fn, firmware) ==
  IF firmware.usb_vid # VENDOR_VID
  THEN ffs
  ELSE IF \E i \in 1..Len(ffs) :
            /\ ffs[i].firmware.usb_vid = firmware.usb_vid
            /\ ffs[i].firmware.usb_pid = firmware.usb_pid
            /\ ffs[i].firmware.firmware_version = firmware.firmware_version
  THEN [ i \in 1..Len(ffs) |->
           IF /\ ffs[i].firmware.usb_vid = firmware.usb_vid
              /\ ffs[i].firmware.usb_pid = firmware.usb_pid
              /\ ffs[i].firmware.firmware_version = firmware.firmware_version
           THEN [fn |-> fn, firmware |-> firmware]
           ELSE ffs[i] ]
  ELSE Append(ffs, [fn |-> fn, firmware |-> firmware])

\* add_found_firmware(fn, firmware)
add_found_firmware(ffs, fn, firmware) ==
  IF firmware.usb_vid # VENDOR_VID
  THEN ffs
  ELSE IF \E i \in 1..Len(ffs) :
            /\ ffs[i].firmware.usb_vid = firmware.usb_vid
            /\ ffs[i].firmware.usb_pid = firmware.usb_pid
            /\ ffs[i].firmware.firmware_version = firmware.firmware_version
  THEN ffs
  ELSE Append(ffs, [fn |-> fn, firmware |-> firmware])

\* variant of enum_firmware_dir() that leaves the directory at the first
\* file whose header cannot be read
RECURSIVE enum_firmware_dir_stops(_, _, _, _)
enum_firmware_dir_stops(ffs, d, dir, n) ==
  IF n = 0
  THEN ffs
  ELSE LET before   == enum_firmware_dir_stops(ffs, d, dir, n - 1)
           fn       == << dir, n >>
           firmware == scarlett2_read_firmware_header(OpenFile(d, fn))
           stopped  == \E k \in 1..(n - 1) :
                         IsNull(scarlett2_read_firmware_header(
                                  OpenFile(d, << dir, k >>)))
       IN  IF stopped \/ IsNull(firmware) THEN before
           ELSE add_found_firmware(before, fn, firmware)

\* enum_firmware_dir(dirname): the first n entries of directory dir of
\* disk d are read and added to the list ffs
RECURSIVE enum_firmware_dir(_, _, _, _)
enum_firmware_dir(ffs, d, dir, n) ==
  IF n = 0
  THEN ffs
  ELSE LET before   == enum_firmware_dir(ffs, d, dir, n - 1)
           fn       == << dir, n >>
           firmware == scarlett2_read_firmware_header(OpenFile(d, fn))
       IN  IF IsNull(firmware) THEN before
           ELSE add_found_firmware(before, fn, firmware)

found_firmware_cmp(ff1, ff2) ==
  LET f1 == ff1.firmware
      f2 == ff2.firmware
      d1 == get_device_for_pid(f1.usb_pid)
      d2 == get_device_for_pid(f2.usb_pid)
  IN  IF d1 < d2 THEN -1
      ELSE IF d1 > d2 THEN 1
      ELSE IF f1.firmware_version < f2.firmware_version THEN 1
      ELSE IF f1.firmware_version > f2.firmware_version THEN -1
      ELSE 0

\* qsort(ffs, ..., found_firmware_cmp): the orders qsort may produce
qsort(ffs) ==
  { [i \in 1..Len(ffs) |-> ffs[p[i]]] :
      p \in { q \in [1..Len(ffs) -> 1..Len(ffs)] :
                /\ \A i \in 1..Len(ffs) : \E j \in 1..Len(ffs) : q[j] = i
                /\ \A i \in 1..Len(ffs) : \A j \in 1..Len(ffs) :
                     i < j => found_firmware_cmp(ffs[q[i]], ffs[q[j]]) <= 0 } }

\* variant of get_latest_firmware() that returns the last entry of the
\* product id
get_latest_firmware_last(ffs, pid) ==
  IF \E i \in 1..Len(ffs) : ffs[i].firmware.usb_pid = pid
  THEN CHOOSE i \in 1..Len(ffs) :
         /\ ffs[i].firmware.usb_pid = pid
         /\ \A j \in (i + 1)..Len(ffs) : ffs[j].firmware.usb_pid # pid
  ELSE 0

\* get_latest_firmware(pid): index of the entry, 0 for NULL
get_latest_firmware(ffs, pid) ==
  IF \E i \in 1..Len(ffs) : ffs[i].firmware.usb_pid = pid
  THEN CHOOSE i \in 1..Len(ffs) :
         /\ ffs[i].firmware.usb_pid = pid
         /\ \A j \in 1..(i - 1) : ffs[j].firmware.usb_pid # pid
  ELSE 0

\* variant of get_firmware_for_version() that falls back to the first entry
\* of the product id when the version is not in the catalog
get_firmware_for_version_or_latest(ffs, pid, version) ==
  LET hit(i) == /\ ffs[i].firmware.usb_pid = pid
                /\ ffs[i].firmware.firmware_version = version
  IN  IF \E i \in 1..Len(ffs) : hit(i)
      THEN CHOOSE i \in 1..Len(ffs) :
             hit(i) /\ \A j \in 1..(i - 1) : ~hit(j)
      ELSE IF \E i \in 1..Len(ffs) : ffs[i].firmware.usb_pid = pid
      THEN CHOOSE i \in 1..Len(ffs) :
             /\ ffs[i].firmware.usb_pid = pid
             /\ \A j \in 1..(i - 1) : ffs[j].firmware.usb_pid # pid
      ELSE 0

\* get_firmware_for_version(pid, version): index of the entry, 0 for NULL
get_firmware_for_version(ffs, pid, version) ==
  LET hit(i) == /\ ffs[i].firmware.usb_pid = pid
                /\ ffs[i].firmware.firmware_version = version
  IN  IF \E i \in 1..Len(ffs) : hit(i)
      THEN CHOOSE i \in 1..Len(ffs) :
             hit(i) /\ \A j \in 1..(i - 1) : ~hit(j)
      ELSE 0

(***************************************************************************)
(* The hardware control channel (what the device may answer).              *)
(***************************************************************************)
\* SCARLETT2_HWDEP_VERSION_MAJOR(v)
SCARLETT2_HWDEP_VERSION_MAJOR(v) == (v \div 65536) % 256

\* results of scarlett2_get_protocol_version(): an error, 1.0.0, 1.2.3,
\* 2.0.0, 0.1.0
ProtocolVersions == { -1, 65536, 66051, 131072, 256 }

\* results of scarlett2_get_erase_progress(): an error, a percentage, 255
PollValues == { -1, 0, 10, 25, 30, 40, 100, ERASE_DONE }

\* results of a command ioctl or of snd_hwdep_open(): 0 or an error
CmdResults == { 0, -1 }

VARIABLES
  command,                    \* the command given on the command line
  cards,                      \* environment: the system's sound cards
  disk,                       \* environment: the firmware files on disk
  selected_card_num,          \* -c argument, -1 when absent
  selected_firmware_version,  \* --firmware-version argument, 0 when absent
  found_cards,                \* list of found cards
  found_firmwares,            \* list of found firmware
  selected_card,              \* index into found_cards, 0 for NULL
  selected_firmware,          \* the loaded firmware file or NULL
  hwdep,                      \* TRUE while the hwdep handle is open
  protocol_version,
  pc,                         \* position in main()
  last_progress, progress, i, \* locals of monitor_erase_progress();
                              \* progress is the local of update_firmware()
                              \* as well
  offset,                     \* local of update_firmware()
  error,                      \* message printed before exit(EXIT_FAILURE)
  log,                        \* history: device commands issued so far
                              \* and erase completions observed
  stalls,                     \* history: consecutive polls without advance
  max_seen                    \* history: highest percentage polled in this wait

vars ==
  << command, cards, disk, selected_card_num, selected_firmware_version,
     found_cards, found_firmwares, selected_card, selected_firmware, hwdep,
     protocol_version, pc, last_progress, progress, i, offset, error, log,
     stalls, max_seen >>

env  == << command, cards, disk, selected_card_num,
           selected_firmware_version >>
mon  == << last_progress, progress, i, stalls, max_seen >>
dev  == << hwdep, protocol_version >>

\* an entry of the command history
\* (for a write: the offset of the chunk, its size and the result)
Cmd(op) == [op |-> op, off |-> 0, size |-> 0, cnt |-> 0]
WriteCmd(off, size, cnt) ==
  [op |-> "write", off |-> off, size |-> size, cnt |-> cnt]

\* the state when main() starts.  Only update reads the firmware directories
\* and the firmware version argument, so the other commands start with none.
Init ==
  /\ command \in Commands
  /\ cards \in SystemCards
  /\ selected_card_num \in { -1, 0, 1 }
  /\ IF command = "update"
     THEN disk \in Disks /\ selected_firmware_version \in { 0, 1552, 1605 }
     ELSE disk = << << >>, << >> >> /\ selected_firmware_version = 0
  /\ found_cards = << >>
  /\ found_firmwares = << >>
  /\ selected_card = 0
  /\ selected_firmware = NULL
  /\ hwdep = FALSE
  /\ protocol_version = 0
  /\ pc = "enum_cards"
  /\ last_progress = 0
  /\ progress = 0
  /\ i = 0
  /\ offset = 0
  /\ error = ""
  /\ log = << >>
  /\ stalls = 0
  /\ max_seen = 0

\* exit(EXIT_FAILURE) after printing msg
Exit(msg) == pc' = "failed" /\ error' = msg

(***************************************************************************)
(* main(): the setup steps.                                                *)
(***************************************************************************)
EnumCards ==
  /\ pc = "enum_cards"
  /\ found_cards' = enum_cards(cards)
  /\ pc' = IF command = "update" THEN "enum_firmwares"
           ELSE "check_card_selection"
  /\ UNCHANGED << env, found_firmwares, selected_card, selected_firmware,
                  dev, mon, offset, error, log >>

\* enum_firmwares(): scan both directories, then sort
EnumFirmwares ==
  /\ pc = "enum_firmwares"
  /\ LET exec_dir == enum_firmware_dir(<< >>, disk, 1, Len(disk[1]))
         both     == enum_firmware_dir(exec_dir, disk, 2, Len(disk[2]))
     IN  found_firmwares' \in qsort(both)
  /\ pc' = "check_card_selection"
  /\ UNCHANGED << env, found_cards, selected_card, selected_firmware, dev,
                  mon, offset, error, log >>

\* what main() calls after check_card_selection()
AfterCardSelection ==
  CASE command = "reboot"         -> "reboot_card"
    [] command = "reset-config"   -> "reset_config"
    [] command = "erase-firmware" -> "reset_config"
    [] command = "update"         -> "check_firmware_selection"

\* variant of check_card_selection() that takes the first card found when
\* the choice cannot be made
CheckCardSelection_first_card ==
  /\ pc = "check_card_selection"
  /\ LET num == IF selected_card_num = -1 /\ Len(found_cards) >= 1
                THEN found_cards[1].card_num
                ELSE selected_card_num
         hit(k) == found_cards[k].card_num = num
     IN  IF Len(found_cards) = 0
         THEN /\ Exit("No supported devices found")
              /\ UNCHANGED << selected_card_num, selected_card >>
         ELSE IF \E k \in 1..Len(found_cards) : hit(k)
         THEN /\ selected_card_num' = num
              /\ selected_card' =
                   CHOOSE k \in 1..Len(found_cards) :
                     hit(k) /\ \A j \in 1..(k - 1) : ~hit(j)
              /\ pc' = AfterCardSelection
              /\ UNCHANGED error
         ELSE /\ selected_card_num' = found_cards[1].card_num
              /\ selected_card' = 1
              /\ pc' = AfterCardSelection
              /\ UNCHANGED error
  /\ UNCHANGED << command, cards, disk, selected_firmware_version,
                  found_cards, found_firmwares, selected_firmware, dev, mon,
                  offset, log >>

CheckCardSelection ==
  /\ pc = "check_card_selection"
  /\ LET num == IF selected_card_num = -1 /\ Len(found_cards) = 1
                THEN found_cards[1].card_num
                ELSE selected_card_num
         hit(k) == found_cards[k].card_num = num
     IN  IF Len(found_cards) = 0
         THEN /\ Exit("No supported devices found")
              /\ UNCHANGED << selected_card_num, selected_card >>
         ELSE IF selected_card_num = -1 /\ Len(found_cards) > 1
         THEN /\ Exit("more than one supported device found")
              /\ UNCHANGED << selected_card_num, selected_card >>
         ELSE IF \E k \in 1..Len(found_cards) : hit(k)
         THEN /\ selected_card_num' = num
              /\ selected_card' =
                   CHOOSE k \in 1..Len(found_cards) :
                     hit(k) /\ \A j \in 1..(k - 1) : ~hit(j)
              /\ pc' = AfterCardSelection
              /\ UNCHANGED error
         ELSE /\ selected_card_num' = num
              /\ Exit("selected card not found")
              /\ UNCHANGED selected_card
  /\ UNCHANGED << command, cards, disk, selected_firmware_version,
                  found_cards, found_firmwares, selected_firmware, dev, mon,
                  offset, log >>

\* variant of check_firmware_selection() that goes on when the card runs
\* the latest version
CheckFirmwareSelection_newer_only ==
  /\ pc = "check_firmware_selection"
  /\ \E malloc_ok \in BOOLEAN :
       LET card == found_cards[selected_card]
           ff   == IF selected_firmware_version = 0
                   THEN get_latest_firmware(found_firmwares, card.pid)
                   ELSE get_firmware_for_version(found_firmwares, card.pid,
                                                 selected_firmware_version)
           file == scarlett2_read_firmware_file(
                     OpenFile(disk, found_firmwares[ff].fn), malloc_ok)
       IN  IF selected_firmware_version = 0 /\ ff = 0
           THEN Exit("No firmware available") /\ UNCHANGED selected_firmware
           ELSE IF /\ selected_firmware_version = 0
                   /\ card.firmware_version >
                        found_firmwares[ff].firmware.firmware_version
           THEN Exit("already up to date") /\ UNCHANGED selected_firmware
           ELSE IF ff = 0
           THEN Exit("No firmware version available")
                /\ UNCHANGED selected_firmware
           ELSE IF IsNull(file)
           THEN Exit("Unable to load firmware") /\ UNCHANGED selected_firmware
           ELSE IF file.header.usb_pid # card.pid
           THEN Exit("Firmware file is for a different device")
                /\ selected_firmware' = file
           ELSE /\ selected_firmware' = file
                /\ pc' = "reset_config"
                /\ UNCHANGED error
  /\ UNCHANGED << env, found_cards, found_firmwares, selected_card, dev, mon,
                  offset, log >>

\* variant of check_firmware_selection() that does not compare the product
\* id of the loaded file with the card's
CheckFirmwareSelection_any_device ==
  /\ pc = "check_firmware_selection"
  /\ \E malloc_ok \in BOOLEAN :
       LET card == found_cards[selected_card]
           ff   == IF selected_firmware_version = 0
                   THEN get_latest_firmware(found_firmwares, card.pid)
                   ELSE get_firmware_for_version(found_firmwares, card.pid,
                                                 selected_firmware_version)
           file == scarlett2_read_firmware_file(
                     OpenFile(disk, found_firmwares[ff].fn), malloc_ok)
       IN  IF selected_firmware_version = 0 /\ ff = 0
           THEN Exit("No firmware available") /\ UNCHANGED selected_firmware
           ELSE IF /\ selected_firmware_version = 0
                   /\ card.firmware_version >=
                        found_firmwares[ff].firmware.firmware_version
           THEN Exit("already up to date") /\ UNCHANGED selected_firmware
           ELSE IF ff = 0
           THEN Exit("No firmware version available")
                /\ UNCHANGED selected_firmware
           ELSE IF IsNull(file)
           THEN Exit("Unable to load firmware") /\ UNCHANGED selected_firmware
           ELSE /\ selected_firmware' = file
                /\ pc' = "reset_config"
                /\ UNCHANGED error
  /\ UNCHANGED << env, found_cards, found_firmwares, selected_card, dev, mon,
                  offset, log >>

\* variant of check_firmware_selection() that compares the version of the
\* card with a requested version as well
CheckFirmwareSelection_always_compares ==
  /\ pc = "check_firmware_selection"
  /\ \E malloc_ok \in BOOLEAN :
       LET card == found_cards[selected_card]
           ff   == IF selected_firmware_version = 0
                   THEN get_latest_firmware(found_firmwares, card.pid)
                   ELSE get_firmware_for_version(found_firmwares, card.pid,
                                                 selected_firmware_version)
           file == scarlett2_read_firmware_file(
                     OpenFile(disk, found_firmwares[ff].fn), malloc_ok)
       IN  IF selected_firmware_version = 0 /\ ff = 0
           THEN Exit("No firmware available") /\ UNCHANGED selected_firmware
           ELSE IF ff = 0
           THEN Exit("No firmware version available")
                /\ UNCHANGED selected_firmware
           ELSE IF card.firmware_version >=
                     found_firmwares[ff].firmware.firmware_version
           THEN Exit("already up to date") /\ UNCHANGED selected_firmware
           ELSE IF IsNull(file)
           THEN Exit("Unable to load firmware") /\ UNCHANGED selected_firmware
           ELSE IF file.header.usb_pid # card.pid
           THEN Exit("Firmware file is for a different device")
                /\ selected_firmware' = file
           ELSE /\ selected_firmware' = file
                /\ pc' = "reset_config"
                /\ UNCHANGED error
  /\ UNCHANGED << env, found_cards, found_firmwares, selected_card, dev, mon,
                  offset, log >>

CheckFirmwareSelection ==
  /\ pc = "check_firmware_selection"
  /\ \E malloc_ok \in BOOLEAN :
       LET card == found_cards[selected_card]
           ff   == IF selected_firmware_version = 0
                   THEN get_latest_firmware(found_firmwares, card.pid)
                   ELSE get_firmware_for_version(found_firmwares, card.pid,
                                                 selected_firmware_version)
           file == scarlett2_read_firmware_file(
                     OpenFile(disk, found_firmwares[ff].fn), malloc_ok)
       IN  IF selected_firmware_version = 0 /\ ff = 0
           THEN Exit("No firmware available") /\ UNCHANGED selected_firmware
           ELSE IF /\ selected_firmware_version = 0
                   /\ card.firmware_version >=
                        found_firmwares[ff].firmware.firmware_version
           THEN Exit("already up to date") /\ UNCHANGED selected_firmware
           ELSE IF ff = 0
           THEN Exit("No firmware version available")
                /\ UNCHANGED selected_firmware
           ELSE IF IsNull(file)
           THEN Exit("Unable to load firmware") /\ UNCHANGED selected_firmware
           ELSE IF file.header.usb_pid # card.pid
           THEN Exit("Firmware file is for a different device")
                /\ selected_firmware' = file
           ELSE /\ selected_firmware' = file
                /\ pc' = "reset_config"
                /\ UNCHANGED error
  /\ UNCHANGED << env, found_cards, found_firmwares, selected_card, dev, mon,
                  offset, log >>

(***************************************************************************)
(* Device operations.                                                      *)
(***************************************************************************)
\* variant of open_card() that accepts every major version from 1 upwards
open_card_at_least(open_err, version) ==
  IF hwdep
  THEN [ok |-> TRUE, hwdep |-> hwdep, protocol_version |-> protocol_version,
        error |-> ""]
  ELSE IF open_err < 0
  THEN [ok |-> FALSE, hwdep |-> FALSE, protocol_version |-> protocol_version,
        error |-> "Unable to open card"]
  ELSE IF version < 0
  THEN [ok |-> FALSE, hwdep |-> TRUE, protocol_version |-> protocol_version,
        error |-> "Unable to get protocol version"]
  ELSE IF SCARLETT2_HWDEP_VERSION_MAJOR(version) < REQUIRED_HWDEP_VERSION_MAJOR
  THEN [ok |-> FALSE, hwdep |-> TRUE, protocol_version |-> version,
        error |-> "Unsupported protocol version"]
  ELSE [ok |-> TRUE, hwdep |-> TRUE, protocol_version |-> version,
        error |-> ""]

\* open_card(alsa_name): open_err is the result of scarlett2_open_card(),
\* version the result of scarlett2_get_protocol_version().  The result tells
\* whether the caller goes on (ok) and the new hwdep and protocol_version.
open_card(open_err, version) ==
  IF hwdep
  THEN [ok |-> TRUE, hwdep |-> hwdep, protocol_version |-> protocol_version,
        error |-> ""]
  ELSE IF open_err < 0
  THEN [ok |-> FALSE, hwdep |-> FALSE, protocol_version |-> protocol_version,
        error |-> "Unable to open card"]
  ELSE IF version < 0
  THEN [ok |-> FALSE, hwdep |-> TRUE, protocol_version |-> protocol_version,
        error |-> "Unable to get protocol version"]
  ELSE IF SCARLETT2_HWDEP_VERSION_MAJOR(version) # REQUIRED_HWDEP_VERSION_MAJOR
  THEN [ok |-> FALSE, hwdep |-> TRUE, protocol_version |-> version,
        error |-> "Unsupported protocol version"]
  ELSE [ok |-> TRUE, hwdep |-> TRUE, protocol_version |-> version,
        error |-> ""]

\* the inputs of open_card(): nothing is asked of the device once it is open
OpenInputs ==
  IF hwdep THEN { << 0, protocol_version >> }
  ELSE CmdResults \X ProtocolVersions

\* variant of reboot_card() that tries again when the reboot fails
RebootCard_retries ==
  /\ pc = "reboot_card"
  /\ \E o \in OpenInputs : \E err \in CmdResults :
       LET oc == open_card(o[1], o[2])
       IN  /\ hwdep' = oc.hwdep
           /\ protocol_version' = oc.protocol_version
           /\ IF ~oc.ok
              THEN Exit(oc.error) /\ UNCHANGED log
              ELSE /\ log' = Append(log, Cmd("reboot"))
                   /\ IF err < 0
                      THEN UNCHANGED << pc, error >>
                      ELSE pc' = "done" /\ UNCHANGED error
  /\ UNCHANGED << env, found_cards, found_firmwares, selected_card,
                  selected_firmware, mon, offset >>

\* reboot_card(), after which main() returns 0
RebootCard ==
  /\ pc = "reboot_card"
  /\ \E o \in OpenInputs : \E err \in CmdResults :
       LET oc == open_card(o[1], o[2])
       IN  /\ hwdep' = oc.hwdep
           /\ protocol_version' = oc.protocol_version
           /\ IF ~oc.ok
              THEN Exit(oc.error) /\ UNCHANGED log
              ELSE /\ log' = Append(log, Cmd("reboot"))
                   /\ IF err < 0
                      THEN Exit("Unable to reboot card")
                      ELSE pc' = "done" /\ UNCHANGED error
  /\ UNCHANGED << env, found_cards, found_firmwares, selected_card,
                  selected_firmware, mon, offset >>

\* variant of the erase requests in which monitor_erase_progress() keeps its
\* last reading from one call to the next (a static last_progress)
EraseRequest_static(op, msg, ret) ==
  \E o \in OpenInputs : \E err \in CmdResults :
    LET oc == open_card(o[1], o[2])
    IN  /\ hwdep' = oc.hwdep
        /\ protocol_version' = oc.protocol_version
        /\ IF ~oc.ok
           THEN Exit(oc.error) /\ UNCHANGED << log, mon >>
           ELSE /\ log' = Append(log, Cmd(op))
                /\ IF err < 0
                   THEN Exit(msg) /\ UNCHANGED mon
                   ELSE /\ pc' = ret
                        /\ last_progress' = progress
                        /\ progress' = 0
                        /\ i' = 0
                        /\ stalls' = 0
                        /\ max_seen' = 0
                        /\ UNCHANGED error

\* the first part of reset_config() and erase_firmware(): open the card and
\* send the erase request op; monitor_erase_progress() follows from ret
EraseRequest(op, msg, ret) ==
  \E o \in OpenInputs : \E err \in CmdResults :
    LET oc == open_card(o[1], o[2])
    IN  /\ hwdep' = oc.hwdep
        /\ protocol_version' = oc.protocol_version
        /\ IF ~oc.ok
           THEN Exit(oc.error) /\ UNCHANGED << log, mon >>
           ELSE /\ log' = Append(log, Cmd(op))
                /\ IF err < 0
                   THEN Exit(msg) /\ UNCHANGED mon
                   ELSE /\ pc' = ret
                        /\ last_progress' = 0
                        /\ progress' = 0
                        /\ i' = 0
                        /\ stalls' = 0
                        /\ max_seen' = 0
                        /\ UNCHANGED error

ResetConfig ==
  /\ pc = "reset_config"
  /\ EraseRequest("erase_config", "Unable to reset configuration",
                  "monitor_config_erase")
  /\ UNCHANGED << env, found_cards, found_firmwares, selected_card,
                  selected_firmware, offset >>

EraseFirmware ==
  /\ pc = "erase_firmware"
  /\ EraseRequest("erase_firmware", "Unable to erase upgrade firmware",
                  "monitor_firmware_erase")
  /\ UNCHANGED << env, found_cards, found_firmwares, selected_card,
                  selected_firmware, offset >>

\* variant: the reset-config branch of main() erases the firmware as well
AfterResetConfig_erases == "erase_firmware"

\* what main() calls after reset_config()
AfterResetConfig ==
  IF command = "reset-config" THEN "reboot_card" ELSE "erase_firmware"

\* variant: the update branch of main() does not call update_firmware()
AfterEraseFirmware_no_write == "reboot_card"

\* variant: the erase-firmware branch of main() does not call reboot_card()
AfterEraseFirmware_no_reboot ==
  IF command = "erase-firmware" THEN "done" ELSE "update_firmware"

\* what main() calls after erase_firmware()
AfterEraseFirmware ==
  IF command = "erase-firmware" THEN "reboot_card" ELSE "update_firmware"

\* the history after one more poll: the poll that returns 255 is recorded
\* as "done", the polls before it leave the history as it is
LogPoll(p) ==
  IF p = ERASE_DONE THEN Append(log, Cmd("done")) ELSE log

\* variant of monitor_erase_progress() that takes a decrease for a stall
MonitorEraseProgress_ignores_decrease(ret) ==
  \E p \in PollValues :
    /\ log' = LogPoll(p)
    /\ IF p < 0
       THEN /\ Exit("Unable to get erase progress")
            /\ progress' = p
            /\ UNCHANGED << last_progress, i, stalls, max_seen >>
       ELSE IF p = ERASE_DONE
       THEN /\ pc' = ret
            /\ progress' = p
            /\ last_progress' = 0
            /\ i' = 0
            /\ stalls' = 0
            /\ max_seen' = 0
            /\ UNCHANGED error
       ELSE IF p > last_progress
       THEN /\ progress' = p
            /\ last_progress' = p
            /\ i' = 0 + 1
            /\ stalls' = 0
            /\ max_seen' = IF p > max_seen THEN p ELSE max_seen
            /\ UNCHANGED << pc, error >>
       ELSE /\ progress' = p
            /\ i' = i + 1
            /\ stalls' = stalls + 1
            /\ UNCHANGED << last_progress, max_seen >>
            /\ IF i + 1 < POLL_LIMIT
               THEN UNCHANGED << pc, error >>
               ELSE Exit("timed out")

\* variant of monitor_erase_progress() that polls again after an error
MonitorEraseProgress_ignores_error(ret) ==
  \E p \in PollValues :
    /\ log' = LogPoll(p)
    /\ IF p = ERASE_DONE
       THEN /\ pc' = ret
            /\ progress' = p
            /\ last_progress' = 0
            /\ i' = 0
            /\ stalls' = 0
            /\ max_seen' = 0
            /\ UNCHANGED error
       ELSE IF p > last_progress
       THEN /\ progress' = p
            /\ last_progress' = p
            /\ i' = 0 + 1
            /\ stalls' = 0
            /\ max_seen' = IF p > max_seen THEN p ELSE max_seen
            /\ UNCHANGED << pc, error >>
       ELSE IF p >= 0 /\ p < last_progress
       THEN /\ Exit("Erase progress went backwards")
            /\ progress' = p
            /\ UNCHANGED << last_progress, i, stalls, max_seen >>
       ELSE /\ progress' = p
            /\ i' = i + 1
            /\ stalls' = stalls + 1
            /\ UNCHANGED << last_progress, max_seen >>
            /\ IF i + 1 < POLL_LIMIT
               THEN UNCHANGED << pc, error >>
               ELSE Exit("timed out")

\* variant of monitor_erase_progress() that takes every change of the
\* percentage for an advance
MonitorEraseProgress_any_change(ret) ==
  \E p \in PollValues :
    /\ log' = LogPoll(p)
    /\ IF p < 0
       THEN /\ Exit("Unable to get erase progress")
            /\ progress' = p
            /\ UNCHANGED << last_progress, i, stalls, max_seen >>
       ELSE IF p = ERASE_DONE
       THEN /\ pc' = ret
            /\ progress' = p
            /\ last_progress' = 0
            /\ i' = 0
            /\ stalls' = 0
            /\ max_seen' = 0
            /\ UNCHANGED error
       ELSE IF p # last_progress
       THEN /\ progress' = p
            /\ last_progress' = p
            /\ i' = 0 + 1
            /\ stalls' = 0
            /\ max_seen' = IF p > max_seen THEN p ELSE max_seen
            /\ UNCHANGED << pc, error >>
       ELSE /\ progress' = p
            /\ i' = i + 1
            /\ stalls' = stalls + 1
            /\ UNCHANGED << last_progress, max_seen >>
            /\ IF i + 1 < POLL_LIMIT
               THEN UNCHANGED << pc, error >>
               ELSE Exit("timed out")

\* variant of monitor_erase_progress() that takes 100 for the end as well
MonitorEraseProgress_done_at_100(ret) ==
  \E p \in PollValues :
    /\ log' = LogPoll(p)
    /\ IF p < 0
       THEN /\ Exit("Unable to get erase progress")
            /\ progress' = p
            /\ UNCHANGED << last_progress, i, stalls, max_seen >>
       ELSE IF p = ERASE_DONE \/ p = 100
       THEN /\ pc' = ret
            /\ progress' = p
            /\ last_progress' = 0
            /\ i' = 0
            /\ stalls' = 0
            /\ max_seen' = 0
            /\ UNCHANGED error
       ELSE IF p > last_progress
       THEN /\ progress' = p
            /\ last_progress' = p
            /\ i' = 0 + 1
            /\ stalls' = 0
            /\ max_seen' = IF p > max_seen THEN p ELSE max_seen
            /\ UNCHANGED << pc, error >>
       ELSE IF p < last_progress
       THEN /\ Exit("Erase progress went backwards")
            /\ progress' = p
            /\ UNCHANGED << last_progress, i, stalls, max_seen >>
       ELSE /\ progress' = p
            /\ i' = i + 1
            /\ stalls' = stalls + 1
            /\ UNCHANGED << last_progress, max_seen >>
            /\ IF i + 1 < POLL_LIMIT
               THEN UNCHANGED << pc, error >>
               ELSE Exit("timed out")

\* monitor_erase_progress(): one iteration of the polling loop with the
\* loop test that follows it, and the check after the loop; p is the result
\* of scarlett2_get_erase_progress().  The locals are gone once the function
\* returns, but for the last value polled.
MonitorEraseProgress(ret) ==
  \E p \in PollValues :
    /\ log' = LogPoll(p)
    /\ IF p < 0
       THEN /\ Exit("Unable to get erase progress")
            /\ progress' = p
            /\ UNCHANGED << last_progress, i, stalls, max_seen >>
       ELSE IF p = ERASE_DONE
       THEN /\ pc' = ret
            /\ progress' = p
            /\ last_progress' = 0
            /\ i' = 0
            /\ stalls' = 0
            /\ max_seen' = 0
            /\ UNCHANGED error
       ELSE IF p > last_progress
       THEN /\ progress' = p
            /\ last_progress' = p
            /\ i' = 0 + 1
            /\ stalls' = 0
            /\ max_seen' = IF p > max_seen THEN p ELSE max_seen
            /\ UNCHANGED << pc, error >>
       ELSE IF p < last_progress
       THEN /\ Exit("Erase progress went backwards")
            /\ progress' = p
            /\ UNCHANGED << last_progress, i, stalls, max_seen >>
       ELSE /\ progress' = p
            /\ i' = i + 1
            /\ stalls' = stalls + 1
            /\ UNCHANGED << last_progress, max_seen >>
            /\ IF i + 1 < POLL_LIMIT
               THEN UNCHANGED << pc, error >>
               ELSE Exit("timed out")

MonitorConfigErase ==
  /\ pc = "monitor_config_erase"
  /\ MonitorEraseProgress(AfterResetConfig)
  /\ UNCHANGED << env, found_cards, found_firmwares, selected_card,
                  selected_firmware, dev, offset >>

MonitorFirmwareErase ==
  /\ pc = "monitor_firmware_erase"
  /\ MonitorEraseProgress(AfterEraseFirmware)
  /\ UNCHANGED << env, found_cards, found_firmwares, selected_card,
                  selected_firmware, dev, offset >>

\* update_firmware() up to the first test of the write loop
UpdateFirmware ==
  /\ pc = "update_firmware"
  /\ \E o \in OpenInputs :
       LET oc == open_card(o[1], o[2])
       IN  /\ hwdep' = oc.hwdep
           /\ protocol_version' = oc.protocol_version
           /\ IF ~oc.ok
              THEN Exit(oc.error) /\ UNCHANGED offset
              ELSE /\ offset' = 0
                   /\ pc' = IF 0 < selected_firmware.header.firmware_length
                            THEN "write_firmware" ELSE "reboot_card"
                   /\ UNCHANGED error
  /\ UNCHANGED << env, found_cards, found_firmwares, selected_card,
                  selected_firmware, mon, log >>

\* variant of the progress computation that divides before it multiplies
write_progress_divides_first(off, len) == (off \div len) * 100

\* int progress = (offset * 100) / len
write_progress(off, len) == (off * 100) \div len

\* variant of the write loop that goes on after a write of zero bytes
WriteFirmwareChunk_zero_ok ==
  /\ pc = "write_firmware"
  /\ LET len == selected_firmware.header.firmware_length
     IN  \E err \in -1..(len - offset) :
           /\ log' = Append(log, WriteCmd(offset, len - offset, err))
           /\ IF err < 0
              THEN Exit("Unable to write firmware")
                   /\ UNCHANGED << offset, progress >>
              ELSE /\ offset' = offset + err
                   /\ progress' = write_progress(offset + err, len)
                   /\ pc' = IF offset + err < len THEN "write_firmware"
                            ELSE "reboot_card"
                   /\ UNCHANGED error
  /\ UNCHANGED << env, found_cards, found_firmwares, selected_card,
                  selected_firmware, dev, last_progress, i, stalls,
                  max_seen >>

\* one iteration of the write loop of update_firmware(), with the loop test
\* that follows it; err is the result of snd_hwdep_write(), progress the
\* percentage printed
WriteFirmwareChunk ==
  /\ pc = "write_firmware"
  /\ LET len == selected_firmware.header.firmware_length
     IN  \E err \in -1..(len - offset) :
           /\ log' = Append(log, WriteCmd(offset, len - offset, err))
           /\ IF err < 0
              THEN Exit("Unable to write firmware")
                   /\ UNCHANGED << offset, progress >>
              ELSE IF err = 0
              THEN Exit("Unable to write firmware: returned 0")
                   /\ UNCHANGED << offset, progress >>
              ELSE /\ offset' = offset + err
                   /\ progress' = write_progress(offset + err, len)
                   /\ pc' = IF offset + err < len THEN "write_firmware"
                            ELSE "reboot_card"
                   /\ UNCHANGED error
  /\ UNCHANGED << env, found_cards, found_firmwares, selected_card,
                  selected_firmware, dev, last_progress, i, stalls,
                  max_seen >>

Next ==
  \/ EnumCards
  \/ EnumFirmwares
  \/ CheckCardSelection
  \/ CheckFirmwareSelection
  \/ ResetConfig
  \/ MonitorConfigErase
  \/ EraseFirmware
  \/ MonitorFirmwareErase
  \/ UpdateFirmware
  \/ WriteFirmwareChunk
  \/ RebootCard

Spec == Init /\ [][Next]_vars

\* the runs with at most one firmware file on disk, which keep running: the
\* program is sequential and every call into the device returns, so a step
\* that can be taken is taken
FairInit ==
  /\ Init
  /\ Len(disk[1]) + Len(disk[2]) <= 1

FairSpec == FairInit /\ [][Next]_vars /\ WF_vars(Next)

(***************************************************************************)
(* The setup of update over larger firmware directories, up to the first   *)
(* device command.                                                         *)
(***************************************************************************)
\* disks with up to MaxScan files, drawn from ScanPool
ScanListings(n) == UNION { [1..k -> ScanPool] : k \in 0..n }

ScanDisks ==
  { d \in ScanListings(MaxScan) \X ScanListings(MaxScan) :
      Len(d[1]) + Len(d[2]) <= MaxScan }

\* main() starts with the command update
SetupInit ==
  /\ command = "update"
  /\ cards \in SystemCards \ { << >> }
  /\ selected_card_num \in { 0, 1 }
  /\ disk \in ScanDisks
  /\ selected_firmware_version \in { 0, 1552, 1605 }
  /\ found_cards = << >>
  /\ found_firmwares = << >>
  /\ selected_card = 0
  /\ selected_firmware = NULL
  /\ hwdep = FALSE
  /\ protocol_version = 0
  /\ pc = "enum_cards"
  /\ last_progress = 0
  /\ progress = 0
  /\ i = 0
  /\ offset = 0
  /\ error = ""
  /\ log = << >>
  /\ stalls = 0
  /\ max_seen = 0

\* environment: between the scan and the load, the file that
\* check_firmware_selection() is about to read gets other contents (no other
\* file is read after the scan)
FileDrift ==
  /\ pc = "check_firmware_selection"
  /\ LET pid == found_cards[selected_card].pid
         ff  == IF selected_firmware_version = 0
                THEN get_latest_firmware(found_firmwares, pid)
                ELSE get_firmware_for_version(found_firmwares, pid,
                                              selected_firmware_version)
     IN  /\ ff # 0
         /\ \E n \in DriftPool :
              LET fn == found_firmwares[ff].fn
              IN  /\ disk[fn[1]][fn[2]] # n
                  /\ disk' = [disk EXCEPT ![fn[1]][fn[2]] = n]
  /\ UNCHANGED << command, cards, selected_card_num,
                  selected_firmware_version, found_cards, found_firmwares,
                  selected_card, selected_firmware, dev, pc, mon, offset,
                  error, log >>

SetupNext ==
  \/ EnumCards
  \/ EnumFirmwares
  \/ CheckCardSelection
  \/ FileDrift
  \/ CheckFirmwareSelection
  \/ ResetConfig

SetupSpec == SetupInit /\ [][SetupNext]_vars

(***************************************************************************)
(* The codec alone: one call of scarlett2_read_firmware_header() or of     *)
(* scarlett2_read_firmware_file() on one file.                             *)
(***************************************************************************)
\* values of the 16-bit and of the 32-bit fields of a header to write
U16Values == { 0, 1, 255, 256, 4661, 33297, 65535 }
U32Values == { 0, 1, 255, 256, 1605, 65535, 65536, 16777216, 2147483647 }

\* either a file to read, or a header in memory to write and read back
CodecInit ==
  /\ command = "update"
  /\ cards = << >>
  /\ selected_card_num = -1
  /\ selected_firmware_version = 0
  /\ found_cards = << >>
  /\ found_firmwares = << >>
  /\ selected_card = 0
  /\ \/ /\ pc = "read_firmware"
        /\ disk \in { << << Len(CatalogPool) + n >>, << >> >> :
                        n \in 1..Len(CodecFiles) }
        /\ selected_firmware = NULL
     \/ /\ pc = "write_header"
        /\ disk = << << >>, << >> >>
        /\ selected_firmware \in
             { [ header |-> [ usb_vid          |-> vid,
                              usb_pid          |-> pid,
                              firmware_version |-> version,
                              firmware_length  |-> length,
                              sha256           |-> Sha256(<< >>, 0) ],
                 firmware_data |-> << >> ] :
                 vid \in U16Values, pid \in U16Values,
                 version \in U32Values, length \in U32Values }
  /\ hwdep = FALSE
  /\ protocol_version = 0
  /\ last_progress = 0
  /\ progress = 0
  /\ i = 0
  /\ offset = 0
  /\ error = ""
  /\ log = << >>
  /\ stalls = 0
  /\ max_seen = 0

\* firmware = scarlett2_read_firmware_header(fn); the result is kept in
\* selected_firmware, with no payload
ReadFirmwareHeader ==
  /\ pc = "read_firmware"
  /\ LET header == scarlett2_read_firmware_header(OpenFile(disk, << 1, 1 >>))
     IN  selected_firmware' =
           IF IsNull(header) THEN NULL
           ELSE [header |-> header, firmware_data |-> << >>]
  /\ pc' = "header_read"
  /\ UNCHANGED << env, found_cards, found_firmwares, selected_card, dev, mon,
                  offset, error, log >>

\* selected_firmware = scarlett2_read_firmware_file(fn)
ReadFirmwareFile ==
  /\ pc = "read_firmware"
  /\ \E malloc_ok \in BOOLEAN :
       selected_firmware' =
         scarlett2_read_firmware_file(OpenFile(disk, << 1, 1 >>), malloc_ok)
  /\ pc' = "file_read"
  /\ UNCHANGED << env, found_cards, found_firmwares, selected_card, dev, mon,
                  offset, error, log >>

\* the header in selected_firmware is written as the file format lays it
\* out, magic first and the numbers big-endian, and read_header() reads
\* these bytes
WriteAndReadHeader ==
  /\ pc = "write_header"
  /\ LET header == selected_firmware.header
         bytes  == WriteFirmware(MAGIC_STRING, header.usb_vid,
                                 header.usb_pid, header.firmware_version,
                                 header.firmware_length, header.sha256,
                                 << >>)
     IN  selected_firmware' = read_header(bytes)
  /\ pc' = "header_read_back"
  /\ UNCHANGED << env, found_cards, found_firmwares, selected_card, dev, mon,
                  offset, error, log >>

CodecNext ==
  \/ ReadFirmwareHeader
  \/ ReadFirmwareFile
  \/ WriteAndReadHeader

CodecSpec == CodecInit /\ [][CodecNext]_vars

(***************************************************************************)
(* Properties.                                                             *)
(***************************************************************************)
\* the operations of the history, in order
Ops(l) == [k \in 1..Len(l) |-> l[k].op]
IsPrefix(a, b) == Len(a) <= Len(b) /\ a = SubSeq(b, 1, Len(a))
Count(l, op) == Cardinality({ k \in 1..Len(l) : l[k].op = op })
MonitorPcs == { "monitor_config_erase", "monitor_firmware_erase" }

\* the messages of the failures of the setup steps
SetupErrors ==
  { "No supported devices found", "more than one supported device found",
    "selected card not found", "No firmware available",
    "already up to date", "No firmware version available",
    "Unable to load firmware", "Firmware file is for a different device" }

\* the catalog entry check_firmware_selection() picks for the selected card
SelectedEntry ==
  IF selected_firmware_version = 0
  THEN get_latest_firmware(found_firmwares, found_cards[selected_card].pid)
  ELSE get_firmware_for_version(found_firmwares,
                                found_cards[selected_card].pid,
                                selected_firmware_version)

\* C1: in a run of update, a device command has been issued only if a card
\* was selected, a firmware was selected from the catalog, its file was
\* loaded in full and its payload matches the digest of its header; a run
\* that failed in a setup step has issued no device command.
C1_SetupBeforeCommands ==
  command = "update" =>
    /\ log # << >> =>
         /\ selected_card # 0
         /\ SelectedEntry # 0
         /\ ~IsNull(selected_firmware)
         /\ Len(selected_firmware.firmware_data) =
              selected_firmware.header.firmware_length
         /\ verify_sha256(selected_firmware.firmware_data,
                          selected_firmware.header.firmware_length,
                          selected_firmware.header.sha256)
    /\ error \in SetupErrors => log = << >> /\ ~hwdep

C1_Witness ==
  /\ command = "update"
  /\ log # << >>
  /\ ~IsNull(selected_firmware)
  /\ selected_firmware.header.firmware_length = MaxLen

\* the history of a whole update of len bytes
IsUpdateLog(l, len) ==
  /\ Len(l) >= 5
  /\ l[1].op = "erase_config"
  /\ l[2].op = "done"
  /\ l[3].op = "erase_firmware"
  /\ l[4].op = "done"
  /\ l[Len(l)].op = "reboot"
  /\ \A k \in 5..(Len(l) - 1) :
       /\ l[k].op = "write"
       /\ l[k].cnt > 0
       /\ l[k].off = IF k = 5 THEN 0 ELSE l[k - 1].off + l[k - 1].cnt
  /\ len = IF Len(l) = 5 THEN 0 ELSE l[Len(l) - 1].off + l[Len(l) - 1].cnt

\* C2: a successful update has issued, in this order and nothing else: the
\* erase-config command, polls up to the one that returned 255, the
\* erase-firmware command, polls up to the one that returned 255, write
\* chunks at strictly increasing offsets that add up to the payload length,
\* and the reboot command.
C2_UpdateOrder ==
  (command = "update" /\ pc = "done") =>
    IsUpdateLog(log, selected_firmware.header.firmware_length)

C2_Witness ==
  /\ command = "update"
  /\ pc = "done"
  /\ Count(log, "write") >= 2

\* C3: no run of reboot, reset-config or erase-firmware has sent a write
\* chunk, and in every run that ended successfully the reboot command is the
\* last device action (and was sent once).
C3_WriteOnlyInUpdate ==
  /\ command # "update" => Count(log, "write") = 0
  /\ \A k \in 1..(Len(log) - 1) : log[k].op # "reboot"
  /\ pc = "done" => (log # << >> /\ log[Len(log)].op = "reboot")

C3_Witness ==
  /\ command = "erase-firmware"
  /\ pc = "done"

\* what a run of a command other than update sends when nothing fails
ExpectedOps ==
  CASE command = "reboot" -> << "reboot" >>
    [] command = "reset-config" -> << "erase_config", "done", "reboot" >>
    [] command = "erase-firmware" ->
         << "erase_config", "done", "erase_firmware", "done", "reboot" >>
    [] OTHER -> << >>

\* C4: erase-firmware sends erase-config, polls it to 255, sends
\* erase-firmware, polls it to 255, then reboots; reset-config sends
\* erase-config, polls it to 255 and reboots, and never sends erase-firmware;
\* reboot sends the reboot command only.
C4_CommandSequences ==
  command # "update" =>
    /\ IsPrefix(Ops(log), ExpectedOps)
    /\ pc = "done" => Ops(log) = ExpectedOps

C4_Witness ==
  /\ command = "reset-config"
  /\ pc = "done"
  /\ Ops(log) = << "erase_config", "done", "reboot" >>

\* C5: with a protocol major version other than 1 the run fails in
\* open_card() and no command is ever sent; every version with major
\* version 1 is accepted, so that commands are sent only on an open device
\* of major version 1.
C5_ProtocolMajor ==
  /\ log # << >> =>
       (hwdep /\ SCARLETT2_HWDEP_VERSION_MAJOR(protocol_version) = 1)
  /\ (hwdep /\ protocol_version # 0
        /\ SCARLETT2_HWDEP_VERSION_MAJOR(protocol_version) # 1) =>
       (pc = "failed" /\ error = "Unsupported protocol version"
          /\ log = << >>)
  /\ error = "Unsupported protocol version" =>
       SCARLETT2_HWDEP_VERSION_MAJOR(protocol_version) # 1

C5_Witness ==
  /\ pc = "failed"
  /\ error = "Unsupported protocol version"
  /\ SCARLETT2_HWDEP_VERSION_MAJOR(protocol_version) = 2
  /\ log = << >>

\* C6: a poll that returns a percentage below the highest percentage polled
\* before it in the same wait ends the run at once, with no command sent,
\* and nothing happens after that: no further poll, no further command.
C6_BackwardsAborts ==
  [][ /\ ( /\ pc \in MonitorPcs
           /\ progress' >= 0
           /\ progress' # ERASE_DONE
           /\ progress' < max_seen )
         => ( /\ pc' = "failed"
              /\ error' = "Erase progress went backwards"
              /\ log' = log )
      /\ (pc = "failed" /\ error = "Erase progress went backwards")
         => UNCHANGED vars ]_vars

C6_Witness ==
  /\ pc = "failed"
  /\ error = "Erase progress went backwards"
  /\ max_seen = 40
  /\ progress = 30

\* C7: the wait times out only after ten polls in a row without advance,
\* whether they come at the start of the wait or after a poll that advanced.
C7_TenStallsBeforeTimeout ==
  error = "timed out" => stalls = 10

\* every command that follows a wait in the history follows a "done"
DoneBeforeNextCommand ==
  \A k \in 1..Len(log) :
    /\ log[k].op = "erase_firmware" => (k > 1 /\ log[k - 1].op = "done")
    /\ log[k].op = "write" =>
         (k > 1 /\ log[k - 1].op \in { "done", "write" })
    /\ (log[k].op = "reboot" /\ command # "reboot") =>
         (k > 1 /\ log[k - 1].op \in { "done", "write" })

\* C8: a wait ends with success if and only if the poll returned 255 (100
\* does not end it), and the command after a wait (erase-firmware, the first
\* write, the reboot) is sent only after a poll of that wait returned 255.
C8_DoneSentinel ==
  [][ /\ pc \in MonitorPcs =>
           ((pc' \notin MonitorPcs \cup { "failed" }) <=>
              progress' = ERASE_DONE)
      /\ DoneBeforeNextCommand' ]_vars

C8_Witness ==
  /\ pc \in MonitorPcs
  /\ progress = 100
  /\ last_progress = 100
  /\ stalls > 0

\* C9: nothing happens after a failure (no further command, no retry), and
\* each of erase-config, erase-firmware and reboot is sent at most once in a
\* run, a failed reboot included.
C9_FailedAbsorbing ==
  [][ /\ pc = "failed" => UNCHANGED vars
      /\ Count(log', "erase_config") <= 1
      /\ Count(log', "erase_firmware") <= 1
      /\ Count(log', "reboot") <= 1 ]_vars

C9_Witness ==
  /\ pc = "failed"
  /\ error = "Unable to reboot card"
  /\ command = "update"
  /\ Count(log, "write") >= 1
  /\ Count(log, "reboot") = 1

\* the bytes accepted by the writes of a history
RECURSIVE Accepted(_)
Accepted(l) ==
  IF l = << >> THEN 0
  ELSE Accepted(SubSeq(l, 1, Len(l) - 1))
         + (IF l[Len(l)].op = "write" /\ l[Len(l)].cnt > 0
            THEN l[Len(l)].cnt ELSE 0)

\* C10: each chunk starts at the current offset and offers all the remaining
\* bytes; a result of zero or below ends the run; a result n > 0 moves the
\* offset by n; the loop ends exactly when the offset equals the payload
\* length; the offset stays within 0..length and equals the bytes accepted.
C10_WriteLoop ==
  [][ pc = "write_firmware" =>
        LET len == selected_firmware.header.firmware_length
            w   == log'[Len(log')]
        IN  /\ log' = Append(log, w)
            /\ w.op = "write"
            /\ w.off = offset
            /\ w.size = len - offset
            /\ w.cnt <= 0 => (pc' = "failed" /\ offset' = offset)
            /\ w.cnt > 0 => (pc' # "failed" /\ offset' = offset + w.cnt)
            /\ pc' = "reboot_card" <=> offset' = len
            /\ pc' \in { "write_firmware", "reboot_card", "failed" }
            /\ 0 <= offset' /\ offset' <= len
            /\ Accepted(log') = offset' ]_vars

C10_Witness ==
  /\ command = "update"
  /\ pc = "done"
  /\ \E k \in 1..Len(log) :
       log[k].op = "write" /\ 0 < log[k].cnt /\ log[k].cnt < log[k].size

(***************************************************************************)
(* The firmware catalog.                                                   *)
(***************************************************************************)
\* the names of the files of disk d
FileNames(d) ==
  UNION { { << dir, k >> : k \in 1..Len(d[dir]) } : dir \in 1..2 }

\* fn1 is met before fn2 in the scan: the directory next to the executable
\* comes first, then the system directory, each in readdir() order
ScannedBefore(fn1, fn2) ==
  \/ fn1[1] < fn2[1]
  \/ fn1[1] = fn2[1] /\ fn1[2] < fn2[2]

\* the bytes of the file fn of disk d
BytesOf(d, fn) == AllFiles[d[fn[1]][fn[2]]]

\* a file with a whole header, the magic and the vendor id of the tool
Cataloguable(bytes) ==
  /\ Len(bytes) >= HEADER_SIZE
  /\ \A k \in 1..8 : bytes[k] = MAGIC_STRING[k]
  /\ bytes[9] * 256 + bytes[10] = VENDOR_VID

\* (vendor id, product id, version) as stored in the bytes of a file
TripleOfBytes(bytes) ==
  << bytes[9] * 256 + bytes[10], bytes[11] * 256 + bytes[12],
     ((bytes[13] * 256 + bytes[14]) * 256 + bytes[15]) * 256 + bytes[16] >>

TripleOf(ff) ==
  << ff.firmware.usb_vid, ff.firmware.usb_pid, ff.firmware.firmware_version >>

\* C11: when enum_firmwares() returns, no two entries of the catalog have
\* the same (vendor id, product id, version); every file with a whole
\* header, the magic and the vendor id has an entry for its triple; and the
\* file an entry names is the first file of the scan (directory next to the
\* executable first, then the system directory) that holds that triple.
C11_FirstFileWins ==
  [][ pc = "enum_firmwares" =>
        LET ffs == found_firmwares'
        IN  /\ \A a \in 1..Len(ffs) : \A b \in 1..Len(ffs) :
                 a # b => TripleOf(ffs[a]) # TripleOf(ffs[b])
            /\ \A fn \in FileNames(disk) :
                 Cataloguable(BytesOf(disk, fn)) =>
                   \E a \in 1..Len(ffs) :
                     TripleOf(ffs[a]) = TripleOfBytes(BytesOf(disk, fn))
            /\ \A a \in 1..Len(ffs) :
                 /\ ffs[a].fn \in FileNames(disk)
                 /\ Cataloguable(BytesOf(disk, ffs[a].fn))
                 /\ TripleOfBytes(BytesOf(disk, ffs[a].fn)) = TripleOf(ffs[a])
                 /\ \A fn \in FileNames(disk) :
                      ( /\ ScannedBefore(fn, ffs[a].fn)
                        /\ Cataloguable(BytesOf(disk, fn)) )
                      => TripleOfBytes(BytesOf(disk, fn)) # TripleOf(ffs[a]) ]_vars

\* the scan met content 9 in the directory next to the executable and then
\* content 1, with the same triple, in the system directory
C11_Witness ==
  /\ pc = "check_card_selection"
  /\ disk = << << 9 >>, << 1 >> >>
  /\ Len(found_firmwares) = 1
  /\ found_firmwares[1].fn = << 1, 1 >>

\* the place of a catalog entry in the order the claim C12 gives: the
\* position of its product id in scarlett2_supported, and after all of them
\* when the table does not list it
TableRank(ff) ==
  IF get_device_for_pid(ff.firmware.usb_pid) = 0
  THEN Len(scarlett2_supported) + 1
  ELSE get_device_for_pid(ff.firmware.usb_pid)

\* C12: after enumeration, entries are in the order of their product ids in
\* the supported-product table, entries with an unlisted product id come
\* after all listed ones and keep their scan order, and entries of one
\* listed product id are in descending order of version.
C12_CatalogOrder ==
  pc \notin { "enum_cards", "enum_firmwares" } =>
    \A a \in 1..Len(found_firmwares) : \A b \in 1..Len(found_firmwares) :
      a < b =>
        LET ff1 == found_firmwares[a]
            ff2 == found_firmwares[b]
        IN  /\ TableRank(ff1) <= TableRank(ff2)
            /\ ( /\ TableRank(ff1) = TableRank(ff2)
                 /\ TableRank(ff1) <= Len(scarlett2_supported) )
               => ff1.firmware.firmware_version >=
                    ff2.firmware.firmware_version
            /\ ( /\ TableRank(ff1) = TableRank(ff2)
                 /\ TableRank(ff1) > Len(scarlett2_supported) )
               => ScannedBefore(ff1.fn, ff2.fn)

(***************************************************************************)
(* Version selection.                                                      *)
(***************************************************************************)
\* the catalog entries of the selected card's product id
EntriesOfCard ==
  { a \in 1..Len(found_firmwares) :
      found_firmwares[a].firmware.usb_pid = found_cards[selected_card].pid }

\* the payload that follows the header in the bytes of a file
PayloadOfBytes(bytes) == SubSeq(bytes, HEADER_SIZE + 1, Len(bytes))

\* C13: when check_firmware_selection() runs with no requested version, the
\* entry it takes is the first catalog entry of the card's product id, that
\* entry has the highest version of all entries of the product id, and the
\* file loaded is the file that entry names; with no entry of the product
\* id the run ends with "No firmware available" and no device command.
C13_LatestIsFirst ==
  [][ ( /\ pc = "check_firmware_selection"
        /\ pc' # "check_firmware_selection"
        /\ selected_firmware_version = 0 ) =>
        IF EntriesOfCard = { }
        THEN /\ pc' = "failed"
             /\ error' = "No firmware available"
             /\ selected_firmware' = NULL
             /\ log' = << >>
             /\ ~hwdep'
        ELSE LET first == CHOOSE a \in EntriesOfCard :
                            \A b \in EntriesOfCard : a <= b
                 bytes == BytesOf(disk, found_firmwares[first].fn)
             IN  /\ \A b \in EntriesOfCard :
                      found_firmwares[first].firmware.firmware_version >=
                        found_firmwares[b].firmware.firmware_version
                 /\ error' # "No firmware available"
                 /\ pc' = "reset_config" =>
                      /\ TripleOfBytes(bytes) =
                           << VENDOR_VID,
                              selected_firmware'.header.usb_pid,
                              selected_firmware'.header.firmware_version >>
                      /\ selected_firmware'.firmware_data =
                           PayloadOfBytes(bytes) ]_vars

\* versions 1552 and 1605 of the card's product id were scanned in this
\* order, and version 1605 was loaded
C13_Witness ==
  /\ pc = "reset_config"
  /\ selected_firmware_version = 0
  /\ disk = << << 2 >>, << 1 >> >>
  /\ Len(found_firmwares) = 2
  /\ selected_firmware.header.firmware_version = 1605

\* C14: in a run of update with no requested version whose card runs a
\* version at or above the highest version cataloged for its product id,
\* once check_firmware_selection() has run the run has ended with "already
\* up to date", no firmware is loaded, the device was not opened and no
\* device command was issued.
C14_UpToDateNoCommand ==
  ( /\ command = "update"
    /\ selected_firmware_version = 0
    /\ selected_card # 0
    /\ pc # "check_firmware_selection"
    /\ EntriesOfCard # { }
    /\ \A a \in EntriesOfCard :
         found_cards[selected_card].firmware_version >=
           found_firmwares[a].firmware.firmware_version ) =>
    /\ pc = "failed"
    /\ error = "already up to date"
    /\ selected_firmware = NULL
    /\ ~hwdep
    /\ log = << >>

\* the card runs version 1605 and the catalog holds version 1605 for it
C14_Witness ==
  /\ error = "already up to date"
  /\ found_cards[selected_card].firmware_version = 1605
  /\ \E a \in EntriesOfCard :
       found_firmwares[a].firmware.firmware_version = 1605

\* C15: when check_firmware_selection() runs with a requested version, it
\* goes on only if the catalog has an entry with the card's product id and
\* exactly that version, and the file it loads is the file that entry
\* names; otherwise the run ends with "No firmware version available", no
\* firmware loaded and no device command issued.
C15_ExactVersionOnly ==
  [][ ( /\ pc = "check_firmware_selection"
        /\ pc' # "check_firmware_selection"
        /\ selected_firmware_version # 0 ) =>
        LET exact == { a \in EntriesOfCard :
                         found_firmwares[a].firmware.firmware_version =
                           selected_firmware_version }
        IN  IF exact = { }
            THEN /\ pc' = "failed"
                 /\ error' = "No firmware version available"
                 /\ selected_firmware' = NULL
                 /\ log' = << >>
                 /\ ~hwdep'
            ELSE /\ Cardinality(exact) = 1
                 /\ error' \notin { "No firmware version available",
                                    "No firmware available",
                                    "already up to date" }
                 /\ pc' = "reset_config" =>
                      \E a \in exact :
                        LET bytes == BytesOf(disk, found_firmwares[a].fn)
                        IN  /\ TripleOfBytes(bytes) =
                                 << VENDOR_VID,
                                    selected_firmware'.header.usb_pid,
                                    selected_firmware'.header.firmware_version >>
                            /\ selected_firmware'.firmware_data =
                                 PayloadOfBytes(bytes) ]_vars

\* version 1552 was requested of a catalog with versions 1605 and 1552 of
\* the card's product id, and version 1552 was loaded
C15_Witness ==
  /\ pc = "reset_config"
  /\ selected_firmware_version = 1552
  /\ disk = << << 1 >>, << 2 >> >>
  /\ Len(found_firmwares) = 2
  /\ selected_firmware.header.firmware_version = 1552

\* C16: whenever the file loaded by check_firmware_selection() has a product
\* id other than the selected card's, the run has ended with "Firmware file
\* is for a different device"; and a run that ended so has not opened the
\* device and has issued no device command.
C16_MismatchAborts ==
  /\ ( /\ ~IsNull(selected_firmware)
       /\ selected_firmware.header.usb_pid # found_cards[selected_card].pid )
     => /\ pc = "failed"
        /\ error = "Firmware file is for a different device"
  /\ error = "Firmware file is for a different device"
     => /\ pc = "failed"
        /\ ~hwdep
        /\ log = << >>

\* the file of the entry selected for a Scarlett 3rd Gen Solo held, when it
\* was loaded, a valid firmware of the Scarlett 2nd Gen 6i6
C16_Witness ==
  /\ error = "Firmware file is for a different device"
  /\ found_cards[selected_card].pid = 33297
  /\ selected_firmware.header.usb_pid = 33283

(***************************************************************************)
(* The device handle.                                                      *)
(***************************************************************************)
\* C17: a run that has ended, with return 0 or with exit(EXIT_FAILURE), does
\* not hold the hwdep handle any more.
C17_HandleReleased ==
  pc \in { "done", "failed" } => ~hwdep

(***************************************************************************)
(* The firmware file codec.                                                *)
(***************************************************************************)
\* the bytes of the file the codec is called on
CodecInput == BytesOf(disk, << 1, 1 >>)

\* the fields of a file as its bytes hold them
HeaderWhole(bytes) == Len(bytes) >= HEADER_SIZE
MagicMatches(bytes) == \A k \in 1..8 : bytes[k] = MAGIC_STRING[k]
LengthOfBytes(bytes) ==
  ((bytes[17] * 256 + bytes[18]) * 256 + bytes[19]) * 256 + bytes[20]
HashOfBytes(bytes) == [ j \in 1..SHA256_DIGEST_LENGTH |-> bytes[20 + j] ]

\* C18: scarlett2_read_firmware_file() returns a file only when the bytes
\* hold a whole header followed by at least `length` payload bytes and the
\* digest of exactly these `length` bytes is the hash of the header; the
\* file returned holds exactly these bytes.  So a payload, empty or not,
\* whose digest is not the hash of the header is never returned.
C18_DigestChecked ==
  ( pc = "file_read" /\ ~IsNull(selected_firmware) ) =>
    /\ HeaderWhole(CodecInput)
    /\ Len(PayloadOfBytes(CodecInput)) >= LengthOfBytes(CodecInput)
    /\ selected_firmware.firmware_data =
         SubSeq(PayloadOfBytes(CodecInput), 1, LengthOfBytes(CodecInput))
    /\ Sha256(PayloadOfBytes(CodecInput), LengthOfBytes(CodecInput)) =
         HashOfBytes(CodecInput)

\* a file with the magic, a length field of 0, an empty payload and a hash
\* that is not the digest of the empty payload was given and not returned
C18_Witness ==
  /\ pc = "file_read"
  /\ IsNull(selected_firmware)
  /\ HeaderWhole(CodecInput)
  /\ MagicMatches(CodecInput)
  /\ LengthOfBytes(CodecInput) = 0
  /\ PayloadOfBytes(CodecInput) = << >>
  /\ Sha256(<< >>, 0) # HashOfBytes(CodecInput)

\* C19: a header returned by scarlett2_read_firmware_header() or by
\* scarlett2_read_firmware_file() has the magic, a version above 0 and a
\* length above 0.
C19_VersionAndLengthPositive ==
  ( pc \in { "header_read", "file_read" } /\ ~IsNull(selected_firmware) ) =>
    /\ MagicMatches(CodecInput)
    /\ selected_firmware.header.firmware_version > 0
    /\ selected_firmware.header.firmware_length > 0

\* C20: scarlett2_read_firmware_header() returns no header when the file
\* has fewer bytes than the header or its first 8 bytes are not the magic;
\* scarlett2_read_firmware_file() returns no file in these cases and when
\* fewer than `length` bytes follow the header.
C20_ShortOrBadMagic ==
  /\ ( /\ pc \in { "header_read", "file_read" }
       /\ ~HeaderWhole(CodecInput) \/ ~MagicMatches(CodecInput) )
     => IsNull(selected_firmware)
  /\ ( /\ pc = "file_read"
       /\ HeaderWhole(CodecInput)
       /\ Len(PayloadOfBytes(CodecInput)) < LengthOfBytes(CodecInput) )
     => IsNull(selected_firmware)

\* a file with the magic, version 1605, a length field of 2, the digest of
\* the two bytes and one payload byte was given and not returned
C20_Witness ==
  /\ pc = "file_read"
  /\ IsNull(selected_firmware)
  /\ HeaderWhole(CodecInput)
  /\ MagicMatches(CodecInput)
  /\ LengthOfBytes(CodecInput) = 2
  /\ Len(PayloadOfBytes(CodecInput)) = 1
  /\ HashOfBytes(CodecInput) = Sha256(Fill(2), 2)

(***************************************************************************)
(* The catalog: vendor, product id, files that cannot be read.             *)
(***************************************************************************)
\* the vendor id and the product id a file holds in its bytes
VendorOfBytes(bytes) == bytes[9] * 256 + bytes[10]
ProductOfBytes(bytes) == bytes[11] * 256 + bytes[12]

\* C21: every catalog entry has the vendor id 0x1235, and when
\* enum_firmwares() returns no entry names a file whose bytes hold another
\* vendor id.
C21_VendorOnly ==
  /\ \A a \in 1..Len(found_firmwares) :
       found_firmwares[a].firmware.usb_vid = 4661
  /\ pc = "check_card_selection" =>
       \A fn \in FileNames(disk) :
         VendorOfBytes(BytesOf(disk, fn)) # 4661 =>
           \A a \in 1..Len(found_firmwares) : found_firmwares[a].fn # fn

\* a file of another vendor was scanned before a file of the vendor, and
\* only the second is in the catalog
C21_Witness ==
  /\ pc = "check_card_selection"
  /\ disk = << << 8, 2 >>, << >> >>
  /\ Len(found_firmwares) = 1
  /\ found_firmwares[1].fn = << 1, 2 >>

\* C22: every catalog entry has a product id of scarlett2_supported.
C22_SupportedProductOnly ==
  \A a \in 1..Len(found_firmwares) :
    \E k \in 1..Len(scarlett2_supported) :
      scarlett2_supported[k] = found_firmwares[a].firmware.usb_pid

\* a file whose header scarlett2_read_firmware_header() cannot return: too
\* short for a header, or without the magic
Unreadable(bytes) == ~HeaderWhole(bytes) \/ ~MagicMatches(bytes)

\* C26: when enum_firmwares() returns after a scan that met a file whose
\* header cannot be read, no entry names such a file, and every file with a
\* whole header, the magic and the vendor id, before or after it, in the
\* same or in the other directory, has an entry for its triple.
C26_BadFileSkipped ==
  [][ ( /\ pc = "enum_firmwares"
        /\ \E bad \in FileNames(disk) : Unreadable(BytesOf(disk, bad)) ) =>
        /\ pc' = "check_card_selection"
        /\ \A fn \in FileNames(disk) :
             IF Unreadable(BytesOf(disk, fn))
             THEN \A a \in 1..Len(found_firmwares') :
                    found_firmwares'[a].fn # fn
             ELSE VendorOfBytes(BytesOf(disk, fn)) = VENDOR_VID =>
                    \E a \in 1..Len(found_firmwares') :
                      /\ TripleOf(found_firmwares'[a]) =
                           TripleOfBytes(BytesOf(disk, fn))
                      /\ ~Unreadable(BytesOf(disk, found_firmwares'[a].fn)) ]_vars

\* a file without the magic was scanned first and the file after it, in the
\* same directory, is in the catalog
C26_Witness ==
  /\ pc = "check_card_selection"
  /\ disk = << << 7, 1 >>, << >> >>
  /\ Len(found_firmwares) = 1
  /\ found_firmwares[1].fn = << 1, 2 >>

\* C23: a header with the magic, written with its vendor id and product id
\* as 16-bit and its version and length as 32-bit big-endian numbers and
\* read back by read_header(), has the field values it had before.
C23_RoundTrip ==
  [][ pc = "write_header" =>
        /\ ~IsNull(selected_firmware')
        /\ selected_firmware'.header.usb_vid =
             selected_firmware.header.usb_vid
        /\ selected_firmware'.header.usb_pid =
             selected_firmware.header.usb_pid
        /\ selected_firmware'.header.firmware_version =
             selected_firmware.header.firmware_version
        /\ selected_firmware'.header.firmware_length =
             selected_firmware.header.firmware_length
        /\ selected_firmware'.header.sha256 =
             selected_firmware.header.sha256 ]_vars

\* a header with product id 0x8211, version 16777216 and length 65536 was
\* written and read back
C23_Witness ==
  /\ pc = "header_read_back"
  /\ selected_firmware.header.usb_pid = 33297
  /\ selected_firmware.header.firmware_version = 16777216
  /\ selected_firmware.header.firmware_length = 65536

(***************************************************************************)
(* The erase requests and their polling.                                   *)
(***************************************************************************)
\* the wait that follows an erase request
MonitorOf(op) ==
  IF op = "erase_config" THEN "monitor_config_erase"
  ELSE "monitor_firmware_erase"

\* C24: the step that sends an erase request either fails at once or goes
\* to the polling of that request; while polling, the last command sent is
\* that erase request and a step sends no command; a poll that returns an
\* error ends the run with no command sent; and nothing happens after a
\* failure.
C24_EraseThenPoll ==
  [][ /\ ( /\ Len(log') = Len(log) + 1
           /\ log'[Len(log')].op \in { "erase_config", "erase_firmware" } )
         => \/ /\ pc' = "failed"
               /\ error' \in { "Unable to reset configuration",
                                "Unable to erase upgrade firmware" }
            \/ /\ pc' = MonitorOf(log'[Len(log')].op)
               /\ error' = ""
      /\ pc \in MonitorPcs
         => /\ log # << >>
            /\ pc = MonitorOf(log[Len(log)].op)
            /\ log' \in { log, Append(log, Cmd("done")) }
            /\ progress' < 0
               => /\ pc' = "failed"
                  /\ error' = "Unable to get erase progress"
                  /\ log' = log
      /\ ( /\ pc = "failed"
           /\ error \in { "Unable to reset configuration",
                           "Unable to erase upgrade firmware",
                           "Unable to get erase progress" } )
         => UNCHANGED vars ]_vars

\* the second poll after the erase-firmware request returned an error
C24_Witness ==
  /\ pc = "failed"
  /\ error = "Unable to get erase progress"
  /\ log # << >>
  /\ log[Len(log)].op = "erase_firmware"
  /\ last_progress = 10
  /\ progress < 0

(***************************************************************************)
(* The write loop.                                                         *)
(***************************************************************************)
\* C25: after each chunk the device accepted, the percentage printed is the
\* whole part of offset * 100 / length for the new offset, is between 0 and
\* 100, is not below the percentage printed after the chunk before, and is
\* 100 exactly when the offset has reached the length.
C25_WriteProgress ==
  [][ ( pc = "write_firmware" /\ pc' # "failed" ) =>
        LET len == selected_firmware.header.firmware_length
        IN  /\ progress' * len <= offset' * 100
            /\ offset' * 100 < (progress' + 1) * len
            /\ 0 <= progress' /\ progress' <= 100
            /\ offset > 0 => progress' >= progress
            /\ progress' = 100 <=> offset' = len ]_vars

\* one byte of three was written: 33 is printed
C25_Witness ==
  /\ pc = "write_firmware"
  /\ selected_firmware.header.firmware_length = 3
  /\ offset = 1
  /\ progress = 33

(***************************************************************************)
(* The file loaded and the catalog entry.                                  *)
(***************************************************************************)
\* C27: in a run of update that has sent a device command, the firmware
\* loaded, which is the one update_firmware() writes, has the version of
\* the catalog entry check_firmware_selection() chose, and the requested
\* version when one was requested.
C27_LoadedVersionIsChosen ==
  ( command = "update" /\ log # << >> ) =>
    /\ selected_firmware.header.firmware_version =
         found_firmwares[SelectedEntry].firmware.firmware_version
    /\ selected_firmware_version # 0 =>
         selected_firmware.header.firmware_version =
           selected_firmware_version

\* a file that holds a whole header with the magic, the payload bytes its
\* length field counts and their digest
WellFormed(bytes) ==
  /\ HeaderWhole(bytes)
  /\ MagicMatches(bytes)
  /\ Len(PayloadOfBytes(bytes)) >= LengthOfBytes(bytes)
  /\ Sha256(PayloadOfBytes(bytes), LengthOfBytes(bytes)) = HashOfBytes(bytes)

\* C28: with a requested version, check_firmware_selection() never ends
\* with "already up to date"; when the catalog has the requested version of
\* the card's product id and its file is a well formed file of that product
\* id, the run goes on to reset_config() (unless malloc() fails), whatever
\* version the card runs.
C28_RequestedVersionNotCompared ==
  [][ ( /\ pc = "check_firmware_selection"
        /\ pc' # "check_firmware_selection"
        /\ selected_firmware_version # 0 ) =>
        /\ error' # "already up to date"
        /\ \A a \in EntriesOfCard :
             ( /\ found_firmwares[a].firmware.firmware_version =
                    selected_firmware_version
               /\ WellFormed(BytesOf(disk, found_firmwares[a].fn))
               /\ ProductOfBytes(BytesOf(disk, found_firmwares[a].fn)) =
                    found_cards[selected_card].pid )
             => \/ pc' = "reset_config"
                \/ pc' = "failed" /\ error' = "Unable to load firmware" ]_vars

\* version 1552 was requested for a card that runs 1605, and was installed
C28_Witness ==
  /\ command = "update"
  /\ pc = "done"
  /\ selected_firmware_version = 1552
  /\ found_cards[selected_card].firmware_version = 1605
  /\ selected_firmware.header.firmware_version = 1552
  /\ log[Len(log)].op = "reboot"

(***************************************************************************)
(* Termination.                                                            *)
(***************************************************************************)
\* C29: every run of every command comes to its end, with return 0 or with
\* exit(EXIT_FAILURE), whatever the device answers.
C29_Terminates == <>(pc \in { "done", "failed" })

\* a wait ended by the stall budget, and an update whose bytes were written
\* one at a time
C29_Witness ==
  \/ pc = "failed" /\ error = "timed out" /\ last_progress = 100
  \/ /\ pc = "done"
     /\ command = "update"
     /\ Count(log, "write") = MaxLen

(***************************************************************************)
(* The polling phases are independent of each other.                       *)
(***************************************************************************)
\* C30: a wait for an erase starts with last_progress 0 and a counter of 0,
\* whatever the wait before it read; its first reading, if it is a
\* percentage above 0, is taken as the progress made; a reading is refused
\* as backwards only if it is below a reading of the same wait; and the wait
\* times out only on stalled polls of its own.
C30_PerPhase ==
  [][ /\ (pc \notin MonitorPcs /\ pc' \in MonitorPcs)
         => /\ last_progress' = 0
            /\ i' = 0
            /\ stalls' = 0
            /\ max_seen' = 0
      /\ ( /\ pc \in MonitorPcs
           /\ i = 0
           /\ progress' > 0
           /\ progress' # ERASE_DONE )
         => /\ pc' = pc
            /\ error' = ""
            /\ last_progress' = progress'
      /\ ( /\ pc \in MonitorPcs
           /\ pc' = "failed"
           /\ error' = "Erase progress went backwards" )
         => progress' < max_seen
      /\ ( /\ pc \in MonitorPcs
           /\ pc' = "failed"
           /\ error' = "timed out" )
         => stalls' >= POLL_LIMIT - 1 ]_vars

\* the wait for the configuration erase ended with the reading 255, and the
\* wait for the firmware erase has taken 10 as its first progress
C30_Witness ==
  /\ pc = "monitor_firmware_erase"
  /\ Len(log) >= 3
  /\ log[Len(log) - 2].op = "erase_config"
  /\ log[Len(log) - 1].op = "done"
  /\ log[Len(log)].op = "erase_firmware"
  /\ progress = 10
  /\ last_progress = 10
  /\ i = 1

(***************************************************************************)
(* The choice of the card.                                                 *)
(***************************************************************************)
\* the numbers of the sound cards of the system whose USB product id is in
\* the table of supported devices
SupportedCardNums ==
  { cards[k].card_num :
      k \in { n \in 1..Len(cards) :
                \E d \in 1..Len(scarlett2_supported) :
                  scarlett2_supported[d] = cards[n].usb_pid } }

CardErrors ==
  { "No supported devices found", "more than one supported device found",
    "selected card not found" }

\* C31: for each of the four commands, check_card_selection() ends the run,
\* with the device not opened and no command sent, when the system has no
\* supported card, when it has several and no card number was given, and
\* when the card number given is not that of a supported card; no step
\* follows. With one supported card and no number given, that card is
\* selected, and every later open and command is made with the selected
\* card, which does not change.
C31_CardSelection ==
  [][ /\ pc = "check_card_selection"
         => /\ ( \/ SupportedCardNums = {}
                 \/ /\ selected_card_num = -1
                    /\ Cardinality(SupportedCardNums) > 1
                 \/ /\ selected_card_num # -1
                    /\ selected_card_num \notin SupportedCardNums )
               => /\ pc' = "failed"
                  /\ error' \in CardErrors
                  /\ selected_card' = 0
                  /\ log' = << >>
                  /\ ~hwdep'
            /\ ( /\ selected_card_num = -1
                 /\ Cardinality(SupportedCardNums) = 1 )
               => /\ pc' = AfterCardSelection
                  /\ error' = ""
                  /\ selected_card' \in 1..Len(found_cards')
                  /\ SupportedCardNums =
                       { found_cards'[selected_card'].card_num }
      /\ (pc = "failed" /\ error \in CardErrors) => UNCHANGED vars
      /\ (log' # log \/ (hwdep' /\ ~hwdep))
         => /\ selected_card \in 1..Len(found_cards)
            /\ found_cards[selected_card].card_num \in SupportedCardNums
            /\ found_cards[selected_card].card_num = selected_card_num
            /\ selected_card' = selected_card
            /\ found_cards' = found_cards
            /\ selected_card_num' = selected_card_num ]_vars

\* card 0 was asked for, and the only supported card of the system is card 1:
\* the run has ended with nothing opened and nothing sent
C31_Witness ==
  /\ pc = "failed"
  /\ error = "selected card not found"
  /\ selected_card_num = 0
  /\ SupportedCardNums = { 1 }
  /\ selected_card = 0
  /\ log = << >>
  /\ ~hwdep
====
